---- MODULE Spec2Model ----
(***************************************************************************)
(* Model of the SiFive UART device model (hw/riscv/sifive_uart.c): the     *)
(* receive FIFO, the memory-mapped registers, the interrupt line and the   *)
(* character-backend callbacks.                                            *)
(***************************************************************************)
EXTENDS Integers, Sequences, FiniteSets, TLC

\* ------------------------------------------------------------------------
\* Program constants (hw/riscv/sifive_uart.h is not part of the sources;
\* the values are the ones the specification documents).
\* ------------------------------------------------------------------------
SIFIVE_UART_RXFIFO == 0
SIFIVE_UART_TXFIFO == 4
SIFIVE_UART_IE == 8
SIFIVE_UART_IP == 12
SIFIVE_UART_TXCTRL == 16
SIFIVE_UART_RXCTRL == 20
SIFIVE_UART_DIV == 24
SIFIVE_UART_MAX == 28
SIFIVE_UART_IE_RXWM == 2
SIFIVE_UART_IP_RXWM == 2
\* sizeof(s->rx_fifo)
RX_FIFO_SIZE == 8
\* Machine words are kept as tuples of 16-bit halfwords, least significant
\* first: a uint32_t has two, a uint64_t (bus value, return value) four.
\* 0x80000000, returned by a read of the empty receive FIFO
RX_EMPTY == <<0, 32768, 0, 0>>

\* ------------------------------------------------------------------------
\* Bounds of the model and the inputs the environment draws from.
\* ------------------------------------------------------------------------
\* bytes a backend delivers synchronously from inside qemu_chr_fe_accept_input
MaxReentrant == 1
\* inbound deliveries followed by the receive-path observer
MaxDelivered == 9
\* TXFIFO writes followed by the transmit-path observer
MaxTx == 2

\* inbound bytes: one below and one above 0x80
Bytes == {65, 255}
\* the inbound byte of the specification that exercises every register
SpecBytes == {65}
\* bus values: zero, IE_RXWM alone, and the 64-bit value 0x1000701C1 (other
\* IE bits set but not IE_RXWM, low byte above 0x80)
Vals == {<<0, 0, 0, 0>>, <<2, 0, 0, 0>>, <<449, 7, 1, 0>>}
\* IE is also written with IE_RXWM and another bit set
IeVals == Vals \cup {<<3, 0, 0, 0>>}
WriteVals(addr) == IF addr = SIFIVE_UART_IE THEN IeVals ELSE Vals
\* the IE values of the receive-path specification: IE_RXWM clear and set
RxwmVals == {<<0, 0, 0, 0>>, <<2, 0, 0, 0>>}
DefinedAddrs == {SIFIVE_UART_RXFIFO, SIFIVE_UART_TXFIFO, SIFIVE_UART_IE,
                 SIFIVE_UART_IP, SIFIVE_UART_TXCTRL, SIFIVE_UART_RXCTRL,
                 SIFIVE_UART_DIV}
WritableAddrs == {SIFIVE_UART_TXFIFO, SIFIVE_UART_IE, SIFIVE_UART_TXCTRL,
                  SIFIVE_UART_RXCTRL, SIFIVE_UART_DIV}
StoredAddrs == {SIFIVE_UART_IE, SIFIVE_UART_TXCTRL, SIFIVE_UART_RXCTRL,
                SIFIVE_UART_DIV}
\* offsets outside the register map: one word past DIV and the next one
UndefinedAddrs == {SIFIVE_UART_MAX, SIFIVE_UART_MAX + 4}
Addrs == DefinedAddrs \cup UndefinedAddrs
Inbound == UNION {[1 .. n -> Bytes] : n \in 0 .. MaxReentrant}
SpecInbound == UNION {[1 .. n -> SpecBytes] : n \in 0 .. MaxReentrant}

VARIABLES
    rx_fifo,      \* s->rx_fifo, the cells below rx_fifo_len (the code reads
                  \* no other cell): a function on 0 .. rx_fifo_len - 1
    rx_fifo_len,  \* s->rx_fifo_len
    ie,           \* s->ie
    txctrl,       \* s->txctrl
    rxctrl,       \* s->rxctrl
    div,          \* s->div
    irq,          \* level of the line s->irq: TRUE raised, FALSE lowered
    handlers,     \* callbacks registered with the character front end
    hw_err,       \* the hw_error() the emulation stopped with, or NoError
    last,         \* the operation that completed last, with what it did
    written,      \* history: the bus value last written to each stored register
    delivered,    \* history: the bytes handed to uart_rx, in order
    accepted,     \* history: those of them that were not dropped
    popped,       \* history: the bytes returned by RXFIFO reads, in order
    shape,        \* history: "deliver" while only deliveries happened,
                  \* "read" while only RXFIFO reads followed them, else "off"
    reads,        \* history: the values of the RXFIFO reads of phase "read"
    tx_log,       \* history: the bytes given to qemu_chr_fe_write, in order
    wr_log        \* history: the bus values written to TXFIFO, in order

dev == <<rx_fifo, rx_fifo_len, ie, txctrl, rxctrl, div>>
core == <<rx_fifo, rx_fifo_len, ie, txctrl, rxctrl, div, irq, handlers,
          hw_err, last, written>>
rx_obs == <<delivered, accepted, popped, shape, reads>>
tx_obs == <<tx_log, wr_log>>
vars == <<rx_fifo, rx_fifo_len, ie, txctrl, rxctrl, div, irq, handlers,
          hw_err, last, written, delivered, accepted, popped, shape, reads,
          tx_log, wr_log>>

UartHandlers == <<"uart_can_rx", "uart_rx", "uart_event", "uart_be_change">>

\* ------------------------------------------------------------------------
\* Helpers
\* ------------------------------------------------------------------------
RECURSIVE BitAnd(_, _)
BitAnd(a, b) ==
    IF a = 0 \/ b = 0 THEN 0
    ELSE (a % 2) * (b % 2) + 2 * BitAnd(a \div 2, b \div 2)

\* uint32_t value = val64
U32(v) == <<v[1], v[2]>>
\* unsigned char ch = value
U8(v) == v[1] % 256
\* assignment of a uint64_t to one of the 32-bit registers of the state
StoreReg(v) == <<v[1], v[2]>>
\* conversion of a uint32_t or an unsigned char to the uint64_t returned
Zext32(v) == <<v[1], v[2], 0, 0>>
Zext8(b) == <<b, 0, 0, 0>>
Zero32 == <<0, 0>>
Zero64 == <<0, 0, 0, 0>>

\* hw_err while no hw_error() has been called
NoError == [fn |-> "none", addr |-> 0]

\* the buffered bytes, oldest first
FifoContents(f, n) == [i \in 1 .. n |-> f[i - 1]]
Fifo == FifoContents(rx_fifo, rx_fifo_len)

\* the record kept of an operation
Op(op, addr, val, ret, notified, warned, tx, inb) ==
    [op |-> op, addr |-> addr, val |-> val, ret |-> ret,
     notified |-> notified, warned |-> warned, tx |-> tx, inb |-> inb]

\* ------------------------------------------------------------------------
\* update_irq: the level the line is driven to
\* ------------------------------------------------------------------------
\* variant: tests s->ie as a whole instead of its IE_RXWM bit
update_irq_any_ie(ie_, len_) ==
    LET cond == IF ie_ # Zero32 /\ len_ # 0 THEN 1 ELSE 0
    IN cond # 0

\* variant: the line follows the IE_RXWM bit alone, whatever the FIFO holds
update_irq_ignores_len(ie_, len_) ==
    LET cond == IF BitAnd(ie_[1], SIFIVE_UART_IE_RXWM) # 0
                THEN 1 ELSE 0
    IN cond # 0

update_irq(ie_, len_) ==
    LET cond == IF BitAnd(ie_[1], SIFIVE_UART_IE_RXWM) # 0 /\ len_ # 0
                THEN 1 ELSE 0
    IN cond # 0

\* ------------------------------------------------------------------------
\* uart_rx on the FIFO: the cells, the length and whether the byte was
\* dropped with a warning
\* ------------------------------------------------------------------------
\* variant: the byte is stored in cell 0 instead of cell rx_fifo_len
rx_store_at_head(f, n, b) ==
    IF n >= RX_FIFO_SIZE
    THEN [fifo |-> f, len |-> n, warned |-> TRUE]
    ELSE [fifo |-> [i \in 0 .. n |-> IF i = 0 THEN b
                                     ELSE IF i = n THEN 0 ELSE f[i]],
          len |-> n + 1, warned |-> FALSE]

\* variant: the FIFO counts as full one byte early
rx_store_early_full(f, n, b) ==
    IF n >= RX_FIFO_SIZE - 1
    THEN [fifo |-> f, len |-> n, warned |-> TRUE]
    ELSE [fifo |-> [i \in 0 .. n |-> IF i = n THEN b ELSE f[i]],
          len |-> n + 1, warned |-> FALSE]

\* variant: on overrun the newest buffered byte is overwritten
rx_store_overwrite(f, n, b) ==
    IF n >= RX_FIFO_SIZE
    THEN [fifo |-> [f EXCEPT ![n - 1] = b], len |-> n, warned |-> TRUE]
    ELSE [fifo |-> [i \in 0 .. n |-> IF i = n THEN b ELSE f[i]],
          len |-> n + 1, warned |-> FALSE]

\* variant: the capacity test is off by one (> instead of >=)
rx_store_off_by_one(f, n, b) ==
    IF n > RX_FIFO_SIZE
    THEN [fifo |-> f, len |-> n, warned |-> TRUE]
    ELSE [fifo |-> [i \in 0 .. n |-> IF i = n THEN b ELSE f[i]],
          len |-> n + 1, warned |-> FALSE]

rx_store(f, n, b) ==
    IF n >= RX_FIFO_SIZE
    THEN [fifo |-> f, len |-> n, warned |-> TRUE]
    ELSE [fifo |-> [i \in 0 .. n |-> IF i = n THEN b ELSE f[i]],
          len |-> n + 1, warned |-> FALSE]

\* the bytes a backend delivers from inside qemu_chr_fe_accept_input, each
\* through uart_rx
RECURSIVE accept_input(_, _, _)
accept_input(f, n, inb) ==
    IF inb = <<>> THEN [fifo |-> f, len |-> n, warned |-> FALSE]
    ELSE LET one == rx_store(f, n, Head(inb))
             rest == accept_input(one.fifo, one.len, Tail(inb))
         IN [fifo |-> rest.fifo, len |-> rest.len,
             warned |-> one.warned \/ rest.warned]

\* variant: source and destination of the memmove are exchanged
memmove_up(f, n) ==
    [i \in 0 .. (n - 2) |-> IF i = 0 THEN f[0] ELSE f[i - 1]]

\* memmove(s->rx_fifo, s->rx_fifo + 1, s->rx_fifo_len - 1)
memmove_down(f, n) ==
    [i \in 0 .. (n - 2) |-> f[i + 1]]

\* ------------------------------------------------------------------------
\* Init: the state sifive_uart_create leaves (g_malloc0, handlers set)
\* ------------------------------------------------------------------------
\* variant: the state is allocated without being zeroed (g_malloc), so a
\* register holds what the memory held
Init_not_zeroed ==
    /\ rx_fifo = [i \in {} |-> 0]
    /\ rx_fifo_len = 0
    /\ ie = Zero32
    /\ txctrl = Zero32
    /\ rxctrl = Zero32
    /\ div = <<449, 7>>
    /\ irq = FALSE
    /\ handlers = UartHandlers
    /\ hw_err = NoError
    /\ last = Op("create", 0, Zero64, Zero64, 0, FALSE, <<>>, <<>>)
    /\ written = [a \in StoredAddrs |-> Zero64]
    /\ delivered = <<>>
    /\ accepted = <<>>
    /\ popped = <<>>
    /\ shape = "deliver"
    /\ reads = <<>>
    /\ tx_log = <<>>
    /\ wr_log = <<>>

Init ==
    /\ rx_fifo = [i \in {} |-> 0]
    /\ rx_fifo_len = 0
    /\ ie = Zero32
    /\ txctrl = Zero32
    /\ rxctrl = Zero32
    /\ div = Zero32
    /\ irq = FALSE
    /\ handlers = UartHandlers
    /\ hw_err = NoError
    /\ last = Op("create", 0, Zero64, Zero64, 0, FALSE, <<>>, <<>>)
    /\ written = [a \in StoredAddrs |-> Zero64]
    /\ delivered = <<>>
    /\ accepted = <<>>
    /\ popped = <<>>
    /\ shape = "deliver"
    /\ reads = <<>>
    /\ tx_log = <<>>
    /\ wr_log = <<>>

Running == hw_err = NoError

\* variant: the bad access is logged and ignored instead of aborting
hw_error_ignored(fn, addr) ==
    /\ last' = Op("ignored", addr, Zero64, Zero64, 0, FALSE, <<>>, <<>>)
    /\ UNCHANGED <<dev, irq, handlers, hw_err>>

\* hw_error(): the emulation aborts; no operation completes any more
hw_error(fn, addr) ==
    /\ hw_err' = [fn |-> fn, addr |-> addr]
    /\ last' = Op("hw_error", addr, Zero64, Zero64, 0, FALSE, <<>>, <<>>)
    /\ UNCHANGED <<dev, irq, handlers>>

\* ------------------------------------------------------------------------
\* uart_read
\* ------------------------------------------------------------------------
\* every case that only returns a value
read_return(addr, ret) ==
    /\ last' = Op("read", addr, Zero64, ret, 0, FALSE, <<>>, <<>>)
    /\ UNCHANGED <<dev, irq, handlers, hw_err>>

\* variant: the empty FIFO reads as 0 instead of 0x80000000
read_rxfifo_zero_on_empty(inb) ==
    IF rx_fifo_len # 0
    THEN LET r == rx_fifo[0]
             moved == memmove_down(rx_fifo, rx_fifo_len)
             acc == accept_input(moved, rx_fifo_len - 1, inb)
         IN /\ rx_fifo' = acc.fifo
            /\ rx_fifo_len' = acc.len
            /\ irq' = update_irq(ie, acc.len)
            /\ last' = Op("read", SIFIVE_UART_RXFIFO, Zero64, Zext8(r), 1,
                          acc.warned, <<>>, inb)
            /\ UNCHANGED <<ie, txctrl, rxctrl, div, handlers, hw_err>>
    ELSE inb = <<>> /\ read_return(SIFIVE_UART_RXFIFO, Zero64)

\* variant: the byte is popped without the call of update_irq
read_rxfifo_no_irq(inb) ==
    IF rx_fifo_len # 0
    THEN LET r == rx_fifo[0]
             moved == memmove_down(rx_fifo, rx_fifo_len)
             acc == accept_input(moved, rx_fifo_len - 1, inb)
         IN /\ rx_fifo' = acc.fifo
            /\ rx_fifo_len' = acc.len
            /\ last' = Op("read", SIFIVE_UART_RXFIFO, Zero64, Zext8(r), 1,
                          acc.warned, <<>>, inb)
            /\ UNCHANGED <<ie, txctrl, rxctrl, div, irq, handlers, hw_err>>
    ELSE inb = <<>> /\ read_return(SIFIVE_UART_RXFIFO, RX_EMPTY)

\* variant: qemu_chr_fe_accept_input is called before the byte is removed
read_rxfifo_notify_first(inb) ==
    IF rx_fifo_len # 0
    THEN LET r == rx_fifo[0]
             acc == accept_input(rx_fifo, rx_fifo_len, inb)
             moved == memmove_down(acc.fifo, acc.len)
         IN /\ rx_fifo' = moved
            /\ rx_fifo_len' = acc.len - 1
            /\ irq' = update_irq(ie, acc.len - 1)
            /\ last' = Op("read", SIFIVE_UART_RXFIFO, Zero64, Zext8(r), 1,
                          acc.warned, <<>>, inb)
            /\ UNCHANGED <<ie, txctrl, rxctrl, div, handlers, hw_err>>
    ELSE inb = <<>> /\ read_return(SIFIVE_UART_RXFIFO, RX_EMPTY)

\* variant: update_irq is called before qemu_chr_fe_accept_input
read_rxfifo_irq_before_notify(inb) ==
    IF rx_fifo_len # 0
    THEN LET r == rx_fifo[0]
             moved == memmove_down(rx_fifo, rx_fifo_len)
             acc == accept_input(moved, rx_fifo_len - 1, inb)
         IN /\ rx_fifo' = acc.fifo
            /\ rx_fifo_len' = acc.len
            /\ irq' = update_irq(ie, rx_fifo_len - 1)
            /\ last' = Op("read", SIFIVE_UART_RXFIFO, Zero64, Zext8(r), 1,
                          acc.warned, <<>>, inb)
            /\ UNCHANGED <<ie, txctrl, rxctrl, div, handlers, hw_err>>
    ELSE inb = <<>> /\ read_return(SIFIVE_UART_RXFIFO, RX_EMPTY)

\* case SIFIVE_UART_RXFIFO; inb is what the backend delivers back from
\* inside qemu_chr_fe_accept_input
read_rxfifo(inb) ==
    IF rx_fifo_len # 0
    THEN LET r == rx_fifo[0]
             moved == memmove_down(rx_fifo, rx_fifo_len)
             acc == accept_input(moved, rx_fifo_len - 1, inb)
         IN /\ rx_fifo' = acc.fifo
            /\ rx_fifo_len' = acc.len
            /\ irq' = update_irq(ie, acc.len)
            /\ last' = Op("read", SIFIVE_UART_RXFIFO, Zero64, Zext8(r), 1,
                          acc.warned, <<>>, inb)
            /\ UNCHANGED <<ie, txctrl, rxctrl, div, handlers, hw_err>>
    ELSE inb = <<>> /\ read_return(SIFIVE_UART_RXFIFO, RX_EMPTY)

\* variant: the pending bit is masked by the enable bit of s->ie
read_ip_masked ==
    read_return(SIFIVE_UART_IP,
                IF rx_fifo_len # 0 /\ BitAnd(ie[1], SIFIVE_UART_IE_RXWM) # 0
                THEN Zext8(SIFIVE_UART_IP_RXWM)
                ELSE Zero64)

read_ip ==
    read_return(SIFIVE_UART_IP,
                IF rx_fifo_len # 0 THEN Zext8(SIFIVE_UART_IP_RXWM)
                ELSE Zero64)

uart_read(addr, inb) ==
    /\ Running
    /\ UNCHANGED written
    /\ CASE addr = SIFIVE_UART_RXFIFO -> read_rxfifo(inb)
         [] addr = SIFIVE_UART_TXFIFO -> inb = <<>> /\ read_return(addr, Zero64)
         [] addr = SIFIVE_UART_IE -> inb = <<>> /\ read_return(addr, Zext32(ie))
         [] addr = SIFIVE_UART_IP -> inb = <<>> /\ read_ip
         [] addr = SIFIVE_UART_TXCTRL ->
              inb = <<>> /\ read_return(addr, Zext32(txctrl))
         [] addr = SIFIVE_UART_RXCTRL ->
              inb = <<>> /\ read_return(addr, Zext32(rxctrl))
         [] addr = SIFIVE_UART_DIV ->
              inb = <<>> /\ read_return(addr, Zext32(div))
         [] OTHER -> inb = <<>> /\ hw_error("uart_read", addr)

\* ------------------------------------------------------------------------
\* uart_write
\* ------------------------------------------------------------------------
write_done(addr, val64, tx) ==
    last' = Op("write", addr, val64, Zero64, 0, FALSE, tx, <<>>)

\* variant: the second byte of value is sent (ch = value >> 8)
write_txfifo_second_byte(val64) ==
    LET value == U32(val64)
        ch == (value[1] \div 256) % 256
    IN /\ write_done(SIFIVE_UART_TXFIFO, val64, <<ch>>)
       /\ UNCHANGED <<dev, irq, handlers, hw_err>>

write_txfifo(val64) ==
    LET value == U32(val64)
        ch == U8(value)
    IN /\ write_done(SIFIVE_UART_TXFIFO, val64, <<ch>>)
       /\ UNCHANGED <<dev, irq, handlers, hw_err>>

\* variant: s->ie is stored without the call of update_irq
write_ie_no_update(val64) ==
    /\ ie' = StoreReg(val64)
    /\ write_done(SIFIVE_UART_IE, val64, <<>>)
    /\ UNCHANGED <<rx_fifo, rx_fifo_len, txctrl, rxctrl, div, irq, handlers,
                   hw_err>>

write_ie(val64) ==
    /\ ie' = StoreReg(val64)
    /\ irq' = update_irq(ie', rx_fifo_len)
    /\ write_done(SIFIVE_UART_IE, val64, <<>>)
    /\ UNCHANGED <<rx_fifo, rx_fifo_len, txctrl, rxctrl, div, handlers, hw_err>>

write_txctrl(val64) ==
    /\ txctrl' = StoreReg(val64)
    /\ write_done(SIFIVE_UART_TXCTRL, val64, <<>>)
    /\ UNCHANGED <<rx_fifo, rx_fifo_len, ie, rxctrl, div, irq, handlers, hw_err>>

\* variant: the RXCTRL case assigns s->txctrl
write_rxctrl_into_txctrl(val64) ==
    /\ txctrl' = StoreReg(val64)
    /\ write_done(SIFIVE_UART_RXCTRL, val64, <<>>)
    /\ UNCHANGED <<rx_fifo, rx_fifo_len, ie, rxctrl, div, irq, handlers, hw_err>>

write_rxctrl(val64) ==
    /\ rxctrl' = StoreReg(val64)
    /\ write_done(SIFIVE_UART_RXCTRL, val64, <<>>)
    /\ UNCHANGED <<rx_fifo, rx_fifo_len, ie, txctrl, div, irq, handlers, hw_err>>

write_div(val64) ==
    /\ div' = StoreReg(val64)
    /\ write_done(SIFIVE_UART_DIV, val64, <<>>)
    /\ UNCHANGED <<rx_fifo, rx_fifo_len, ie, txctrl, rxctrl, irq, handlers,
                   hw_err>>

\* variant: the switch has no case for SIFIVE_UART_DIV
uart_write_no_div(addr, val64) ==
    /\ Running
    /\ written' = IF addr \in StoredAddrs
                  THEN [written EXCEPT ![addr] = val64] ELSE written
    /\ CASE addr = SIFIVE_UART_TXFIFO -> write_txfifo(val64)
         [] addr = SIFIVE_UART_IE -> write_ie(val64)
         [] addr = SIFIVE_UART_TXCTRL -> write_txctrl(val64)
         [] addr = SIFIVE_UART_RXCTRL -> write_rxctrl(val64)
         [] OTHER -> hw_error("uart_write", addr)

uart_write(addr, val64) ==
    /\ Running
    /\ written' = IF addr \in StoredAddrs
                  THEN [written EXCEPT ![addr] = val64] ELSE written
    /\ CASE addr = SIFIVE_UART_TXFIFO -> write_txfifo(val64)
         [] addr = SIFIVE_UART_IE -> write_ie(val64)
         [] addr = SIFIVE_UART_TXCTRL -> write_txctrl(val64)
         [] addr = SIFIVE_UART_RXCTRL -> write_rxctrl(val64)
         [] addr = SIFIVE_UART_DIV -> write_div(val64)
         [] OTHER -> hw_error("uart_write", addr)

\* ------------------------------------------------------------------------
\* uart_rx, uart_can_rx, uart_event, uart_be_change
\* ------------------------------------------------------------------------
uart_rx(b) ==
    LET st == rx_store(rx_fifo, rx_fifo_len, b)
    IN /\ Running
       /\ rx_fifo' = st.fifo
       /\ rx_fifo_len' = st.len
       /\ irq' = IF st.warned THEN irq ELSE update_irq(ie, st.len)
       /\ last' = Op("rx", 0, Zext8(b), Zero64, 0, st.warned, <<>>, <<>>)
       /\ UNCHANGED <<ie, txctrl, rxctrl, div, handlers, hw_err, written>>

\* variant: the comparison is <= instead of <
can_rx_result_le == IF rx_fifo_len <= RX_FIFO_SIZE THEN 1 ELSE 0

can_rx_result == IF rx_fifo_len < RX_FIFO_SIZE THEN 1 ELSE 0

uart_can_rx ==
    /\ Running
    /\ last' = Op("can_rx", 0, Zero64, Zext8(can_rx_result), 0, FALSE,
                  <<>>, <<>>)
    /\ UNCHANGED <<dev, irq, handlers, hw_err, written>>

uart_event ==
    /\ Running
    /\ last' = Op("event", 0, Zero64, Zero64, 0, FALSE, <<>>, <<>>)
    /\ UNCHANGED <<dev, irq, handlers, hw_err, written>>

\* variant: the handlers are set again without the be_change hook itself
uart_be_change_drops_hook ==
    /\ Running
    /\ handlers' = <<"uart_can_rx", "uart_rx", "uart_event", "NULL">>
    /\ last' = Op("be_change", 0, Zero64, Zero64, 0, FALSE, <<>>, <<>>)
    /\ UNCHANGED <<dev, irq, hw_err, written>>

uart_be_change ==
    /\ Running
    /\ handlers' = UartHandlers
    /\ last' = Op("be_change", 0, Zero64, Zero64, 0, FALSE, <<>>, <<>>)
    /\ UNCHANGED <<dev, irq, hw_err, written>>

\* ------------------------------------------------------------------------
\* Spec: the bus and the backend call every handler with every input
\* ------------------------------------------------------------------------
BusRead(addr, inb) == uart_read(addr, inb) /\ UNCHANGED <<rx_obs, tx_obs>>
BusWrite(addr, val64) == uart_write(addr, val64) /\ UNCHANGED <<rx_obs, tx_obs>>
ChrRx(b) == uart_rx(b) /\ UNCHANGED <<rx_obs, tx_obs>>
ChrCanRx == uart_can_rx /\ UNCHANGED <<rx_obs, tx_obs>>
ChrEvent == uart_event /\ UNCHANGED <<rx_obs, tx_obs>>
ChrBeChange == uart_be_change /\ UNCHANGED <<rx_obs, tx_obs>>

Next ==
    \/ \E addr \in Addrs, inb \in SpecInbound : BusRead(addr, inb)
    \/ \E addr \in Addrs : \E val64 \in WriteVals(addr) : BusWrite(addr, val64)
    \/ \E b \in SpecBytes : ChrRx(b)
    \/ ChrCanRx
    \/ ChrEvent
    \/ ChrBeChange

Spec == Init /\ [][Next]_vars

\* ------------------------------------------------------------------------
\* SpecFifo: the receive path (deliveries of two byte values, RXFIFO reads,
\* IE writes, flow-control queries) with an observer that keeps what was
\* delivered, accepted and read back
\* ------------------------------------------------------------------------
ObsRx(b) ==
    /\ Len(delivered) < MaxDelivered
    /\ uart_rx(b)
    /\ delivered' = Append(delivered, b)
    /\ accepted' = IF last'.warned THEN accepted ELSE Append(accepted, b)
    /\ shape' = IF shape = "deliver" THEN "deliver" ELSE "off"
    /\ reads' = IF shape = "deliver" THEN reads ELSE <<>>
    /\ UNCHANGED <<popped, tx_obs>>

ObsReadRxfifo(inb) ==
    /\ Len(delivered) + Len(inb) <= MaxDelivered
    /\ uart_read(SIFIVE_UART_RXFIFO, inb)
    /\ delivered' = delivered \o inb
    /\ accepted' = IF rx_fifo_len = 0 THEN accepted
                   ELSE accepted
                        \o SubSeq(inb, 1, rx_fifo_len' - (rx_fifo_len - 1))
    /\ popped' = IF last'.ret[2] >= 32768 THEN popped
                 ELSE Append(popped, last'.ret[1])
    /\ IF inb = <<>> /\ shape \in {"deliver", "read"}
          /\ Len(reads) < Len(delivered)
       THEN shape' = "read" /\ reads' = Append(reads, last'.ret)
       ELSE shape' = "off" /\ reads' = <<>>
    /\ UNCHANGED tx_obs

ObsWriteIe(val64) ==
    /\ uart_write(SIFIVE_UART_IE, val64)
    /\ UNCHANGED <<rx_obs, tx_obs>>

ObsCanRx == uart_can_rx /\ UNCHANGED <<rx_obs, tx_obs>>

NextFifo ==
    \/ \E b \in Bytes : ObsRx(b)
    \/ \E inb \in Inbound : ObsReadRxfifo(inb)
    \/ \E val64 \in RxwmVals : ObsWriteIe(val64)
    \/ ObsCanRx

SpecFifo == Init /\ [][NextFifo]_vars

\* ------------------------------------------------------------------------
\* SpecTx: the transmit path (register writes, with deliveries and RXFIFO
\* reads that vary the receiver state) with an observer that keeps what was
\* written to TXFIFO and what the backend was given
\* ------------------------------------------------------------------------
TxWrite(addr, val64) ==
    /\ addr = SIFIVE_UART_TXFIFO => Len(wr_log) < MaxTx
    /\ uart_write(addr, val64)
    /\ wr_log' = IF addr = SIFIVE_UART_TXFIFO /\ hw_err' = NoError
                 THEN Append(wr_log, val64) ELSE wr_log
    /\ tx_log' = tx_log \o last'.tx
    /\ UNCHANGED rx_obs

TxRx(b) ==
    /\ uart_rx(b)
    /\ tx_log' = tx_log \o last'.tx
    /\ UNCHANGED <<wr_log, rx_obs>>

TxReadRxfifo ==
    /\ uart_read(SIFIVE_UART_RXFIFO, <<>>)
    /\ tx_log' = tx_log \o last'.tx
    /\ UNCHANGED <<wr_log, rx_obs>>

NextTx ==
    \/ \E addr \in WritableAddrs, val64 \in Vals : TxWrite(addr, val64)
    \/ \E b \in SpecBytes : TxRx(b)
    \/ TxReadRxfifo

SpecTx == Init /\ [][NextTx]_vars

\* ------------------------------------------------------------------------
\* SpecFlow: a backend that delivers a byte only when uart_can_rx returns
\* true and never from inside another operation, and a guest that keeps
\* reading RXFIFO, with the receive observer
\* ------------------------------------------------------------------------
FlowRx(b) ==
    /\ can_rx_result = 1
    /\ ObsRx(b)

FlowRead == ObsReadRxfifo(<<>>)

NextFlow ==
    \/ \E b \in Bytes : FlowRx(b)
    \/ FlowRead

SpecFlow == Init /\ [][NextFlow]_vars /\ WF_vars(FlowRead)

\* ------------------------------------------------------------------------
\* Properties
\* ------------------------------------------------------------------------
\* bit 1 (IE_RXWM) of a 32-bit register value
\* ------------------------------------------------------------------------
\* SpecIrq: update_irq invoked on its own, once or several times in a row,
\* in any state of the FIFO length, of ie and of the line
\* ------------------------------------------------------------------------
InitIrq ==
    /\ rx_fifo_len \in 0 .. RX_FIFO_SIZE
    /\ \E b \in Bytes : rx_fifo = [i \in 0 .. (rx_fifo_len - 1) |-> b]
    /\ ie \in {StoreReg(v) : v \in IeVals}
    /\ txctrl = Zero32
    /\ rxctrl = Zero32
    /\ div = Zero32
    /\ irq \in BOOLEAN
    /\ handlers = UartHandlers
    /\ hw_err = NoError
    /\ last = Op("create", 0, Zero64, Zero64, 0, FALSE, <<>>, <<>>)
    /\ written = [a \in StoredAddrs |-> Zero64]
    /\ delivered = <<>>
    /\ accepted = <<>>
    /\ popped = <<>>
    /\ shape = "off"
    /\ reads = <<>>
    /\ tx_log = <<>>
    /\ wr_log = <<>>

\* one call of update_irq(s); the record tells a call that follows another
\* call from a first one
IrqStep ==
    /\ irq' = update_irq(ie, rx_fifo_len)
    /\ last' = Op(IF last.op \in {"update_irq", "update_irq_again"}
                  THEN "update_irq_again" ELSE "update_irq",
                  0, Zero64, Zero64, 0, FALSE, <<>>, <<>>)
    /\ UNCHANGED <<dev, handlers, hw_err, written, rx_obs, tx_obs>>

NextIrq == IrqStep

SpecIrq == InitIrq /\ [][NextIrq]_vars

RxwmSet(reg) == (reg[1] \div 2) % 2 = 1

\* C1: after every completed operation the interrupt line is raised if and
\* only if the IE_RXWM bit of ie is set and the FIFO holds at least one byte,
\* whatever txctrl, rxctrl, div, the other bits of ie and the FIFO contents.
C1_IrqIffEnabledAndNonEmpty ==
    irq = (RxwmSet(ie) /\ rx_fifo_len > 0)

\* a delivery left the line raised while another ie bit is set and the
\* other registers hold non-zero values
C1_Witness ==
    /\ last.op = "rx"
    /\ irq
    /\ rx_fifo_len > 1
    /\ ie = <<3, 0>>
    /\ txctrl # Zero32
    /\ div # Zero32

\* C3: the FIFO length stays within 0 .. 8, and the buffered cells are
\* exactly the cells below the length.
C3_LenWithinCapacity ==
    /\ rx_fifo_len \in 0 .. 8
    /\ DOMAIN rx_fifo = 0 .. (rx_fifo_len - 1)

\* a byte was delivered while the FIFO was full
C3_Witness ==
    /\ last.op = "rx"
    /\ last.warned
    /\ rx_fifo_len = 8

\* C5: a read of RXFIFO while the FIFO is empty returns 0x80000000, changes
\* neither the FIFO, the registers nor the line, and does not notify the
\* backend.
C5_EmptyReadHasNoEffect ==
    [][(rx_fifo_len = 0 /\ last'.op = "read"
            /\ last'.addr = SIFIVE_UART_RXFIFO)
        => /\ last'.ret = <<0, 32768, 0, 0>>
           /\ last'.notified = 0
           /\ last'.inb = <<>>
           /\ ~last'.warned
           /\ rx_fifo_len' = 0
           /\ UNCHANGED <<dev, irq, handlers, hw_err>>]_vars

\* the empty FIFO was read while the watermark interrupt is enabled
C5_Witness ==
    /\ last.op = "read"
    /\ last.addr = SIFIVE_UART_RXFIFO
    /\ last.ret = <<0, 32768, 0, 0>>
    /\ rx_fifo_len = 0
    /\ RxwmSet(ie)
    /\ ~irq

\* C6: a write of IE while bytes are buffered leaves the line raised when
\* the value has IE_RXWM set and lowered when it has not, the FIFO being
\* untouched; and each step of the scenario (deliver 0x41 with IE = 0: line
\* low; write IE = IE_RXWM: line high; read RXFIFO: 0x41, line low) does
\* what the scenario says.
C6_IeWriteActsAtOnce ==
    [][/\ (rx_fifo_len >= 1 /\ last'.op = "write"
              /\ last'.addr = SIFIVE_UART_IE)
          => /\ irq' = RxwmSet(last'.val)
             /\ rx_fifo' = rx_fifo
             /\ rx_fifo_len' = rx_fifo_len
       /\ (rx_fifo_len = 0 /\ ie = Zero32 /\ last'.op = "rx"
              /\ last'.val = <<65, 0, 0, 0>>)
          => /\ ~irq'
             /\ Fifo' = <<65>>
       /\ (Fifo = <<65>> /\ ie = Zero32 /\ last'.op = "write"
              /\ last'.addr = SIFIVE_UART_IE /\ last'.val = <<2, 0, 0, 0>>)
          => /\ irq'
             /\ Fifo' = <<65>>
       /\ (Fifo = <<65>> /\ ie = <<2, 0>> /\ last'.op = "read"
              /\ last'.addr = SIFIVE_UART_RXFIFO /\ last'.inb = <<>>)
          => /\ last'.ret = <<65, 0, 0, 0>>
             /\ ~irq'
             /\ rx_fifo_len' = 0]_vars

\* IE_RXWM was written while one byte was buffered, and the line is up
C6_Witness ==
    /\ last.op = "write"
    /\ last.addr = SIFIVE_UART_IE
    /\ last.val = <<2, 0, 0, 0>>
    /\ Fifo = <<65>>
    /\ irq

\* C8: a read of TXCTRL, RXCTRL or DIV returns the low 32 bits of the value
\* last written to that register, whatever happened since; a write to one
\* of them stores the low 32 bits of the bus value and changes nothing else.
InertAddrs == {SIFIVE_UART_TXCTRL, SIFIVE_UART_RXCTRL, SIFIVE_UART_DIV}
InertReg(a, t, r, d) ==
    CASE a = SIFIVE_UART_TXCTRL -> t
      [] a = SIFIVE_UART_RXCTRL -> r
      [] a = SIFIVE_UART_DIV -> d

C8_InertRegistersRoundTrip ==
    [][/\ (last'.op = "read" /\ last'.addr \in InertAddrs)
          => /\ last'.ret = <<written[last'.addr][1], written[last'.addr][2],
                              0, 0>>
             /\ UNCHANGED <<dev, irq>>
       /\ (last'.op = "write" /\ last'.addr \in InertAddrs)
          => /\ InertReg(last'.addr, txctrl', rxctrl', div')
                    = <<last'.val[1], last'.val[2]>>
             /\ \A a \in InertAddrs \ {last'.addr} :
                    InertReg(a, txctrl', rxctrl', div')
                    = InertReg(a, txctrl, rxctrl, div)
             /\ UNCHANGED <<rx_fifo, rx_fifo_len, ie, irq>>]_vars

\* DIV reads back the low half of a 64-bit value while TXCTRL holds another
C8_Witness ==
    /\ last.op = "read"
    /\ last.addr = SIFIVE_UART_DIV
    /\ written[SIFIVE_UART_DIV] = <<449, 7, 1, 0>>
    /\ last.ret = <<449, 7, 0, 0>>
    /\ txctrl = <<2, 0>>
    /\ rx_fifo_len > 0

\* C9: a read at an offset uart_read has no case for, and a write at an
\* offset uart_write has no case for, stops the emulation in hw_error with
\* that offset, the FIFO, the registers and the line being as before.
C9_UnknownOffsetIsFatal ==
    [][/\ \A a \in Addrs \ DefinedAddrs :
            uart_read(a, <<>>)
            => /\ hw_err' = [fn |-> "uart_read", addr |-> a]
               /\ UNCHANGED <<dev, irq>>
       /\ \A a \in Addrs \ WritableAddrs : \A v \in WriteVals(a) :
            uart_write(a, v)
            => /\ hw_err' = [fn |-> "uart_write", addr |-> a]
               /\ UNCHANGED <<dev, irq>>]_vars

\* the emulation stopped on a read one word past DIV with bytes buffered
C9_Witness ==
    /\ hw_err = [fn |-> "uart_read", addr |-> 28]
    /\ rx_fifo_len > 0
    /\ irq

\* C10 as stated: hw_error is reached only at offsets outside the seven
\* defined ones.
C10_FatalOnlyOutsideMap ==
    hw_err # NoError => hw_err.addr \notin DefinedAddrs

\* C10 as amended: hw_error is reached only by a read outside the seven
\* defined offsets or by a write outside the five offsets uart_write
\* handles (TXFIFO, IE, TXCTRL, RXCTRL, DIV); the only other error is the
\* warning of a delivery dropped because the FIFO is full.
C10_FatalOnlyUnhandledOffset ==
    /\ hw_err # NoError
       => \/ hw_err.fn = "uart_read" /\ hw_err.addr \notin DefinedAddrs
          \/ hw_err.fn = "uart_write" /\ hw_err.addr \notin WritableAddrs
    /\ last.op = "read" => last.addr \in DefinedAddrs
    /\ last.op = "write" => last.addr \in WritableAddrs
    /\ last.warned
       => /\ rx_fifo_len = 8
          /\ \/ last.op = "rx"
             \/ last.op = "read" /\ last.inb # <<>>

\* the emulation stopped on a write to the read-only IP register
C10_Witness ==
    hw_err = [fn |-> "uart_write", addr |-> SIFIVE_UART_IP]

\* C2: after n <= 8 deliveries to the fresh controller followed by RXFIFO
\* reads only, the i-th read returns the i-th delivered byte zero-extended
\* (bit 31 clear), for every read up to the n-th.
C2_FifoOrder ==
    (shape \in {"deliver", "read"} /\ Len(delivered) <= 8)
    => /\ Len(reads) <= Len(delivered)
       /\ \A i \in 1 .. Len(reads) : reads[i] = <<delivered[i], 0, 0, 0>>

\* eight bytes of both values were delivered and all eight were read back
C2_Witness ==
    /\ shape = "read"
    /\ Len(delivered) = 8
    /\ Len(reads) = 8
    /\ delivered[1] = 255
    /\ delivered[2] = 65
    /\ delivered[8] = 255
    /\ rx_fifo_len = 0

\* C4: a delivery made while the FIFO holds 8 bytes is dropped with a
\* warning: the buffered bytes, the length, the registers and the line are as
\* before and hw_error is not called; and an RXFIFO read returns the oldest
\* buffered byte and leaves the others in order, so the reads that follow
\* return the original 8 bytes.
C4_OverrunDropsByte ==
    [][/\ (rx_fifo_len = 8 /\ last'.op = "rx")
          => /\ last'.warned
             /\ hw_err' = NoError
             /\ Fifo' = Fifo
             /\ UNCHANGED <<dev, irq>>
             /\ accepted' = accepted
       /\ (rx_fifo_len >= 1 /\ last'.op = "read"
              /\ last'.addr = SIFIVE_UART_RXFIFO /\ last'.inb = <<>>)
          => /\ last'.ret = <<Fifo[1], 0, 0, 0>>
             /\ Fifo' = Tail(Fifo)]_vars

\* a ninth byte, different from the newest buffered one, was just dropped
\* while the line was raised
C4_Witness ==
    /\ last.op = "rx"
    /\ last.warned
    /\ last.val = <<255, 0, 0, 0>>
    /\ Fifo = <<65, 255, 65, 65, 255, 255, 65, 65>>
    /\ Len(delivered) = 9
    /\ irq

\* C7: a write to TXFIFO gives the backend exactly one byte, the low byte
\* of the value, and changes neither the FIFO, the registers nor the line;
\* the bytes the backend was given are the low bytes of the values written
\* to TXFIFO, in order.
C7_TxForwardsLowByte ==
    [][/\ (last'.op = "write" /\ last'.addr = SIFIVE_UART_TXFIFO)
          => /\ last'.tx = <<last'.val[1] % 256>>
             /\ hw_err' = NoError
             /\ UNCHANGED <<dev, irq>>
       /\ tx_log' = [i \in 1 .. Len(wr_log') |-> wr_log'[i][1] % 256]]_vars

\* two values were written to TXFIFO, the first a 64-bit one, while a byte
\* was buffered and the line was raised
C7_Witness ==
    /\ last.op = "write"
    /\ last.addr = SIFIVE_UART_TXFIFO
    /\ wr_log = <<<<449, 7, 1, 0>>, <<2, 0, 0, 0>>>>
    /\ tx_log = <<193, 2>>
    /\ rx_fifo_len > 0
    /\ irq

\* C11: the flow-control query returns true exactly when the FIFO holds
\* fewer than 8 bytes and changes nothing; a delivery is dropped exactly
\* when the FIFO holds 8 bytes, the states in which the query returns false.
C11_CanRxIffRoom ==
    [][/\ last'.op = "can_rx"
          => /\ last'.ret = (IF rx_fifo_len < 8 THEN <<1, 0, 0, 0>>
                             ELSE <<0, 0, 0, 0>>)
             /\ UNCHANGED <<dev, irq, handlers, hw_err>>
       /\ last'.op = "rx"
          => /\ last'.warned <=> rx_fifo_len = 8
             /\ last'.warned <=> rx_fifo_len' = rx_fifo_len
             /\ ~last'.warned <=> rx_fifo_len' = rx_fifo_len + 1]_vars

\* the query was made with the FIFO full and returned false
C11_Witness ==
    /\ last.op = "can_rx"
    /\ last.ret = <<0, 0, 0, 0>>
    /\ rx_fifo_len = 8

\* C12: a read of RXFIFO while the FIFO holds b1..bn, n >= 1, during which
\* the backend delivers nothing, returns b1 (a value in 0 .. 255), leaves
\* b2..bn in order with length n - 1, notifies the backend once, lowers the
\* line when n = 1 and leaves its level otherwise, and leaves the registers
\* as they were.
C12_ReadPopsOldest ==
    [][(rx_fifo_len >= 1 /\ last'.op = "read"
            /\ last'.addr = SIFIVE_UART_RXFIFO /\ last'.inb = <<>>)
        => /\ last'.ret = <<Fifo[1], 0, 0, 0>>
           /\ Fifo[1] \in 0 .. 255
           /\ Fifo' = Tail(Fifo)
           /\ rx_fifo_len' = rx_fifo_len - 1
           /\ last'.notified = 1
           /\ irq' = (IF rx_fifo_len = 1 THEN FALSE ELSE irq)
           /\ hw_err' = NoError
           /\ UNCHANGED <<ie, txctrl, rxctrl, div>>]_vars

\* the last buffered byte, 0xFF, was read with the watermark interrupt
\* enabled, and the line went down
C12_Witness ==
    /\ last.op = "read"
    /\ last.addr = SIFIVE_UART_RXFIFO
    /\ last.inb = <<>>
    /\ last.ret = <<255, 0, 0, 0>>
    /\ last.notified = 1
    /\ Len(popped) = 3
    /\ rx_fifo_len = 0
    /\ RxwmSet(ie)
    /\ ~irq

\* C13: a read of IP returns IP_RXWM when the FIFO holds a byte and 0 when
\* it is empty, whatever ie is; a read of IE returns the 32 bits last
\* written to IE (any 32-bit value verbatim); a read of TXFIFO returns 0;
\* none of the three changes the FIFO, a register or the line.
C13_IpIeTxfifoReads ==
    [][/\ (last'.op = "read" /\ last'.addr = SIFIVE_UART_IP)
          => /\ last'.ret = (IF rx_fifo_len > 0
                             THEN <<SIFIVE_UART_IP_RXWM, 0, 0, 0>>
                             ELSE <<0, 0, 0, 0>>)
             /\ UNCHANGED <<dev, irq, handlers, hw_err>>
       /\ (last'.op = "read" /\ last'.addr = SIFIVE_UART_IE)
          => /\ last'.ret = <<written[SIFIVE_UART_IE][1],
                              written[SIFIVE_UART_IE][2], 0, 0>>
             /\ (written[SIFIVE_UART_IE][3] = 0
                    /\ written[SIFIVE_UART_IE][4] = 0)
                => last'.ret = written[SIFIVE_UART_IE]
             /\ UNCHANGED <<dev, irq, handlers, hw_err>>
       /\ (last'.op = "read" /\ last'.addr = SIFIVE_UART_TXFIFO)
          => /\ last'.ret = <<0, 0, 0, 0>>
             /\ UNCHANGED <<dev, irq, handlers, hw_err>>]_vars

\* IP was read as pending while the watermark interrupt is disabled and the
\* line is low
C13_Witness ==
    /\ last.op = "read"
    /\ last.addr = SIFIVE_UART_IP
    /\ last.ret = <<SIFIVE_UART_IP_RXWM, 0, 0, 0>>
    /\ rx_fifo_len > 0
    /\ written[SIFIVE_UART_IE] = <<449, 7, 1, 0>>
    /\ ie = <<449, 7>>
    /\ ~irq

\* C14: in the state sifive_uart_create leaves, the FIFO is empty and ie,
\* txctrl, rxctrl and div are zero; the first operation, when it is a read
\* of IE, IP, TXCTRL, RXCTRL or DIV, returns 0, when it is a read of RXFIFO,
\* returns 0x80000000, and when it is the flow-control query, returns true.
C14_CreatedZeroed ==
    [][last.op = "create"
        => /\ rx_fifo_len = 0
           /\ Fifo = <<>>
           /\ ie = <<0, 0>> /\ txctrl = <<0, 0>>
           /\ rxctrl = <<0, 0>> /\ div = <<0, 0>>
           /\ (last'.op = "read"
                  /\ last'.addr \in {SIFIVE_UART_IE, SIFIVE_UART_IP,
                                     SIFIVE_UART_TXCTRL, SIFIVE_UART_RXCTRL,
                                     SIFIVE_UART_DIV})
              => last'.ret = <<0, 0, 0, 0>>
           /\ (last'.op = "read" /\ last'.addr = SIFIVE_UART_RXFIFO)
              => last'.ret = <<0, 32768, 0, 0>>
           /\ last'.op = "can_rx" => last'.ret = <<1, 0, 0, 0>>]_vars

\* DIV was read as 0 with nothing written and nothing delivered before
C14_Witness ==
    /\ last.op = "read"
    /\ last.addr = SIFIVE_UART_DIV
    /\ last.ret = <<0, 0, 0, 0>>
    /\ rx_fifo_len = 0
    /\ \A a \in StoredAddrs : written[a] = <<0, 0, 0, 0>>
    /\ dev = <<rx_fifo, 0, <<0, 0>>, <<0, 0>>, <<0, 0>>, <<0, 0>>>>

\* C15: the backend-reconfiguration hook and the event callback change
\* neither the FIFO, a register nor the line, in whatever state and however
\* often they are called, and the same handlers (uart_can_rx, uart_rx,
\* uart_event, uart_be_change) are registered afterwards.
C15_BeChangeHasNoEffect ==
    [][last'.op \in {"be_change", "event"}
        => /\ UNCHANGED <<dev, irq, hw_err>>
           /\ Fifo' = Fifo
           /\ handlers' = handlers
           /\ handlers' = <<"uart_can_rx", "uart_rx", "uart_event",
                            "uart_be_change">>]_vars

\* the hook ran with the FIFO full, the line raised and a register set
C15_Witness ==
    /\ last.op = "be_change"
    /\ rx_fifo_len = 8
    /\ irq
    /\ txctrl = <<449, 7>>

\* C16: under every interleaving of deliveries and RXFIFO reads, the bytes
\* returned by the reads that found a byte, followed by the bytes buffered,
\* are the accepted bytes in arrival order: what was read is a prefix of
\* what was accepted, with no byte duplicated, reordered or lost.
C16_ReadsArePrefixOfAccepted ==
    /\ Len(popped) <= Len(accepted)
    /\ Len(accepted) <= Len(delivered)
    /\ accepted = popped \o Fifo

\* deliveries and reads were interleaved, one byte was dropped, bytes of
\* both values were read and others are still buffered
C16_Witness ==
    /\ shape = "off"
    /\ Len(delivered) = Len(accepted) + 1
    /\ Len(popped) >= 3
    /\ popped[1] = 65
    /\ popped[2] = 255
    /\ rx_fifo_len >= 2
    /\ Fifo[1] # Fifo[2]

\* C17: when the backend delivers only while the flow-control query returns
\* true, and never from inside another operation, no byte is dropped (the
\* warning of uart_rx is never reached, every delivered byte is accepted),
\* the bytes read back followed by the bytes buffered are the bytes
\* delivered, and, the guest reading on, the k-th delivered byte is
\* eventually returned as the k-th byte read.
C17_NoLossUnderFlowControl ==
    /\ [](/\ ~last.warned
          /\ accepted = delivered
          /\ delivered = popped \o Fifo)
    /\ \A k \in 1 .. MaxDelivered :
          (Len(delivered) >= k) ~> (Len(popped) >= k /\ popped[k] = delivered[k])

\* more bytes than the FIFO holds were delivered, none was dropped, and all
\* were read back
C17_Witness ==
    /\ Len(delivered) = 9
    /\ accepted = delivered
    /\ popped = delivered
    /\ delivered[1] # delivered[9]
    /\ last.op = "read"

\* C18: an RXFIFO read that finds a byte notifies the backend after the
\* slot is freed: a byte the backend delivers from inside the notification
\* is accepted, and after the read (the backend delivering nothing from
\* inside it) the FIFO holds fewer than 8 bytes and a flow-control query
\* returns true; so one read of the full FIFO turns the query from false to
\* true.
C18_ReadReleasesThrottle ==
    [][/\ (rx_fifo_len >= 1 /\ last'.op = "read"
              /\ last'.addr = SIFIVE_UART_RXFIFO)
          => /\ last'.notified = 1
             /\ Len(last'.inb) >= 1 => rx_fifo_len' >= rx_fifo_len
             /\ Len(last'.inb) = 1 => ~last'.warned
             /\ last'.inb = <<>> => rx_fifo_len' < 8
       /\ (last.op = "read" /\ last.addr = SIFIVE_UART_RXFIFO
              /\ last.notified = 1 /\ last.inb = <<>>
              /\ last'.op = "can_rx")
          => last'.ret = <<1, 0, 0, 0>>
       /\ (last.op = "can_rx" /\ last.ret = <<0, 0, 0, 0>>
              /\ last'.op = "read" /\ last'.addr = SIFIVE_UART_RXFIFO
              /\ last'.inb = <<>>)
          => rx_fifo_len' = 7]_vars

\* the full FIFO was read and the byte the backend delivered from inside
\* the notification was accepted
C18_Witness ==
    /\ last.op = "read"
    /\ last.addr = SIFIVE_UART_RXFIFO
    /\ last.notified = 1
    /\ Len(last.inb) = 1
    /\ ~last.warned
    /\ rx_fifo_len = 8

\* C19: when the backend delivers bytes from inside the notification of an
\* RXFIFO read, the read returns the byte it popped, the delivered bytes
\* stand at the tail behind the remaining ones (as far as the FIFO has
\* room), the length stays within 0..8, and on return the interrupt line
\* equals (IE_RXWM set and length > 0).
C19_ReentrantDelivery ==
    [][(rx_fifo_len >= 1 /\ last'.op = "read"
           /\ last'.addr = SIFIVE_UART_RXFIFO /\ Len(last'.inb) >= 1)
       => LET all == Tail(Fifo) \o last'.inb
              kept == IF Len(all) <= RX_FIFO_SIZE THEN Len(all)
                      ELSE RX_FIFO_SIZE
          IN /\ last'.ret = <<Fifo[1], 0, 0, 0>>
             /\ Fifo' = SubSeq(all, 1, kept)
             /\ last'.warned = (Len(all) > RX_FIFO_SIZE)
             /\ rx_fifo_len' \in 0 .. RX_FIFO_SIZE
             /\ irq' = (RxwmSet(ie) /\ rx_fifo_len' > 0)]_vars

\* a read popped one byte value and the other value, delivered from inside
\* the notification, is now the only byte queued, with the line raised
C19_Witness ==
    /\ last.op = "read"
    /\ last.addr = SIFIVE_UART_RXFIFO
    /\ Len(last.inb) = 1
    /\ last.ret # Zext8(last.inb[1])
    /\ rx_fifo_len = 1
    /\ Fifo = last.inb
    /\ irq

\* C20: a call of update_irq sets the line to (IE_RXWM set and length > 0)
\* whatever the line was, leaves the FIFO and every register unchanged, and
\* a call that follows another call leaves the line where the first put it.
C20_UpdateIrqIdempotent ==
    [][/\ last'.op \in {"update_irq", "update_irq_again"}
          => /\ irq' = (RxwmSet(ie) /\ rx_fifo_len > 0)
             /\ UNCHANGED <<rx_fifo, rx_fifo_len, ie, txctrl, rxctrl, div>>
       /\ last'.op = "update_irq_again" => irq' = irq]_vars

\* update_irq was called twice in a row on a full FIFO with IE_RXWM set among
\* other bits and the line is high
C20_Witness ==
    /\ last.op = "update_irq_again"
    /\ rx_fifo_len = RX_FIFO_SIZE
    /\ ie = <<3, 0>>
    /\ irq

====
